---- MODULE Spec2Model ----
(***************************************************************************)
(* Model of the units application lifecycle engine: one application's      *)
(* source tree, its systemd target directory and the service manager,      *)
(* with App::get_status, App::install, App::uninstall (src/app.rs) and the *)
(* systemd.rs queries as atomic operations of a single-threaded program.   *)
(***************************************************************************)
EXTENDS Integers, Sequences, FiniteSets, TLC

\* ------------------------------------------------------------------ bounds

\* Number of unit files the application's source tree can hold.
MaxFiles == 2

\* Entries of the repository directory in the fleet-wide operations.
MaxEntries == 3

\* Entries of the repository directory that are applications.
MaxApps == 2

\* ---------------------------------------------------------------- constants

CONFIG_FILE_NAME == "config.toml"

\* The application under management (the end-to-end scenario's "webapp").
AppName == "webapp"
AppDir == "repo/webapp"
SystemdDir == "/tmp/units"

\* File names a source tree may hold besides the configuration file.
UnitNames == <<"webapp.service", "webapp.timer", "webapp.socket", "webapp.path">>

\* The relative paths a source directory can hold: the root itself, a
\* sub-directory, the configuration file, the unit files.
WalkOrder ==
    << <<>>, <<"conf.d">>, <<CONFIG_FILE_NAME>> >>
        \o [i \in 1..MaxFiles |-> <<UnitNames[i]>>]

\* Orders in which a walk of the source directory yields them: the root
\* first, then its entries in the order read_dir returns them, which depends
\* on the filesystem. One lists by name as above, the other lists the unit
\* files in the reverse order and before the other entries.
WalkOrders ==
    {WalkOrder,
     << <<>> >> \o [i \in 1..MaxFiles |-> <<UnitNames[MaxFiles + 1 - i]>>]
                \o << <<"conf.d">>, <<CONFIG_FILE_NAME>> >>}

UnitRels == {<<UnitNames[i]>> : i \in 1..MaxFiles}

\* A path is a base directory joined with a relative path.
Paths ==
    {<<AppDir, WalkOrder[i]>> : i \in 1..Len(WalkOrder)}
        \cup {<<SystemdDir, <<>>>>} \cup {<<SystemdDir, r>> : r \in UnitRels}

\* Filesystem nodes: nothing, a directory, or a regular file with content.
SourceContent == "v1"
OtherContent == "v0"
NoFile == "none"

\* What a copy that fails can leave at its target: fs::copy creates or
\* truncates the target before it writes, so the target is as it was (the
\* copy failed before that), empty, or holds a part of the source.
EmptyContent == ""
PartialContent == "v1-"
Unchanged == "unchanged"
CopyLeft == {Unchanged, EmptyContent, PartialContent}
Dir == "dir"

\* A directory the process is not allowed to list
Locked == "locked"

NoPath == <<"", <<>>>>

VARIABLES
    app,      \* the App struct: name, app_dir, systemd_dir, use_user
    workdir,  \* the working directory: name -> what <name>/config.toml reads as
    fs,       \* the filesystem: path -> node
    sm,       \* the service manager: the unit, active, enabled, unit file loaded
    last,     \* the operation that ran last: call, result, and what it did
    prev,     \* fs and sm as they were when the last operation started
    step,     \* position of the end-to-end scenario ("idle" outside of it)
    fleet,    \* the repository directory: its entries, their files, their units
    batch     \* the fleet-wide operation that ran last, and the fleet before it

vars == <<app, workdir, fs, sm, last, prev, step, fleet, batch>>

\* ------------------------------------------------------------ path helpers

\* Path::join of a base directory and a relative path
join(base, rel) == <<base, rel>>

\* Path::strip_prefix: the relative path of `path` under `base`
strip_prefix(path, base) ==
    IF path[1] = base THEN [ok |-> TRUE, rel |-> path[2]]
    ELSE [ok |-> FALSE, rel |-> <<>>]

\* Path::file_name: the last component
file_name(path) ==
    IF path[2] = <<>> THEN path[1] ELSE path[2][Len(path[2])]

\* Path::is_dir and Path::exists on filesystem f
is_dir(f, path) == path \in DOMAIN f /\ f[path] \in {Dir, Locked}
exists(f, path) == path \in DOMAIN f /\ f[path] # NoFile

\* The items a walk yields: an entry, or the error met at a path
WalkOk(path) == [ok |-> TRUE, path |-> path]
WalkErr(path) == [ok |-> FALSE, path |-> path]

\* The items of the existing entries order[i..], in the order `order` in
\* which the filesystem lists them: a directory that cannot be listed is
\* yielded as an entry and then as the error of descending into it.
RECURSIVE WalkFrom(_, _, _, _)
WalkFrom(f, root, order, i) ==
    IF i > Len(order) THEN <<>>
    ELSE LET p == join(root, order[i])
             rest == WalkFrom(f, root, order, i + 1)
         IN  IF ~exists(f, p) THEN rest
             ELSE IF f[p] = Locked THEN <<WalkOk(p), WalkErr(p)>> \o rest
             ELSE <<WalkOk(p)>> \o rest

\* WalkDir::new(root).into_iter(): the sequence of items the iterator
\* yields.  A missing root is one error; a root that is not a directory is
\* the only entry; a root that cannot be listed is an entry and an error;
\* otherwise the root comes first and the entries below it follow.
WalkDir(f, root, order) ==
    LET top == join(root, <<>>)
    IN  IF ~exists(f, top) THEN <<WalkErr(top)>>
        ELSE IF ~is_dir(f, top) THEN <<WalkOk(top)>>
        ELSE IF f[top] = Locked THEN <<WalkOk(top), WalkErr(top)>>
        ELSE WalkFrom(f, root, order, 1)

\* Whether the unit file of unit `unit` lies in the target directory
UnitOnDisk(f, unit) == exists(f, join(SystemdDir, <<unit>>))

\* ------------------------------------------------- the service manager

\* What the host does with one invocation of an external command: it carries
\* it out, it runs it and the command exits non-zero, or it cannot run it.
Outcomes == {"runs", "fails", "unreachable"}

\* One invocation of the service-manager CLI: argv is the program followed by
\* its arguments, s the service manager's state, f the filesystem it reads its
\* unit files from, o what the host does with the invocation.
\* The exit status is the only signal: "success", "failure" (non-zero exit) or
\* "unreachable" (the process could not be run).
Systemctl(argv, s, f, o) ==
    LET a1 == IF Head(argv) = "sudo" THEN Tail(argv) ELSE argv
        a2 == Tail(a1)
        a3 == IF a2 # <<>> /\ Head(a2) = "--user" THEN Tail(a2) ELSE a2
        verb == IF a3 = <<>> THEN "" ELSE Head(a3)
        exit(b) == IF b THEN "success" ELSE "failure"
    IN  IF o = "unreachable" THEN [status |-> "unreachable", sm |-> s]
        ELSE IF o = "fails" THEN [status |-> "failure", sm |-> s]
        ELSE IF verb = "is-active" THEN [status |-> exit(s.active), sm |-> s]
        ELSE IF verb = "is-enabled" THEN [status |-> exit(s.enabled), sm |-> s]
        ELSE IF verb = "start"
             THEN [status |-> "success", sm |-> [s EXCEPT !.active = TRUE]]
        ELSE IF verb = "stop"
             THEN [status |-> "success", sm |-> [s EXCEPT !.active = FALSE]]
        ELSE IF verb = "daemon-reload"
             THEN [status |-> "success", sm |-> [s EXCEPT !.loaded = UnitOnDisk(f, s.unit)]]
        ELSE [status |-> "failure", sm |-> s]

\* ----------------------------------------------------------------- events

\* What an operation did, in order: external commands, copies, removals, the
\* confirmation prompt, and the steps a dry run reports as planned.
ExecEv(argv, status) ==
    [kind |-> "exec", args |-> argv, from |-> NoPath, to |-> NoPath, status |-> status]
CopyEv(from, to, status) ==
    [kind |-> "copy", args |-> <<>>, from |-> from, to |-> to, status |-> status]
RemoveEv(path, status) ==
    [kind |-> "remove", args |-> <<>>, from |-> NoPath, to |-> path, status |-> status]
ConfirmEv(answer) ==
    [kind |-> "confirm", args |-> <<>>, from |-> NoPath, to |-> NoPath, status |-> answer]
PlanEv(what, from, to) ==
    [kind |-> "plan", args |-> <<what>>, from |-> from, to |-> to, status |-> "planned"]

\* The outcome of an operation: its result, the state it leaves, what it did.
Outcome(result, f, s, trace) ==
    [result |-> result, fs |-> f, sm |-> s, trace |-> trace]

\* ------------------------------------------------------------ App (app.rs)

\* App::prepare_systemctl_args
prepare_systemctl_args(self, args) ==
    IF self.use_user THEN <<"--user">> \o args ELSE args

\* format!("{}.service", self.name)
service_name(self) == self.name \o ".service"

\* the target path of a source file: systemd_dir.join(file.strip_prefix(app_dir))
target_path(self, file) ==
    join(self.systemd_dir, strip_prefix(file, self.app_dir).rel)

\* App::get_app_files: the error of the walk wherever it occurs, otherwise
\* the entries that are neither directories nor the configuration file.
get_app_files(self, f, order) ==
    LET walk == WalkDir(f, self.app_dir, order)
    IN  IF \E i \in 1..Len(walk) : ~walk[i].ok
        THEN [ok |-> FALSE, files |-> <<>>]
        ELSE LET kept == SelectSeq(walk,
                           LAMBDA w : ~(is_dir(f, w.path)
                                        \/ file_name(w.path) = CONFIG_FILE_NAME))
             IN  [ok |-> TRUE, files |-> [i \in 1..Len(kept) |-> kept[i].path]]

\* Faulty variant of is_empty: the emptiness check never triggers.
is_empty_never(files) == FALSE

\* Vec::is_empty on the manifest
is_empty(files) == files = <<>>

\* Whether item w of a walk is a file of the manifest
is_unit_file(f, w) ==
    w.ok /\ ~(is_dir(f, w.path) \/ file_name(w.path) = CONFIG_FILE_NAME)

\* Faulty variant of files_installed: the source path is checked instead of
\* the path re-rooted onto the target directory.
files_installed_source_path(self, f, order) ==
    LET walk == WalkDir(f, self.app_dir, order)
        stops == {i \in 1..Len(walk) :
                    \/ ~walk[i].ok
                    \/ is_unit_file(f, walk[i]) /\ ~exists(f, walk[i].path)}
    IN  IF stops = {} THEN [ok |-> TRUE, value |-> TRUE]
        ELSE LET first == CHOOSE i \in stops : \A j \in stops : i <= j
             IN  [ok |-> walk[first].ok, value |-> FALSE]

\* Faulty variant of files_installed: an application without any file to
\* install counts as not installed.
files_installed_some_file(self, f, order) ==
    LET walk == WalkDir(f, self.app_dir, order)
        stops == {i \in 1..Len(walk) :
                    \/ ~walk[i].ok
                    \/ is_unit_file(f, walk[i])
                       /\ ~exists(f, target_path(self, walk[i].path))}
    IN  IF stops = {}
        THEN [ok |-> TRUE,
              value |-> \E i \in 1..Len(walk) : is_unit_file(f, walk[i])]
        ELSE LET first == CHOOSE i \in stops : \A j \in stops : i <= j
             IN  [ok |-> walk[first].ok, value |-> FALSE]

\* App::files_installed: the items of the walk are taken in turn, and the
\* first one that is an error or a file whose target is missing ends the
\* loop, with the error or with false; true when no item ends it.
files_installed(self, f, order) ==
    LET walk == WalkDir(f, self.app_dir, order)
        stops == {i \in 1..Len(walk) :
                    \/ ~walk[i].ok
                    \/ is_unit_file(f, walk[i])
                       /\ ~exists(f, target_path(self, walk[i].path))}
    IN  IF stops = {} THEN [ok |-> TRUE, value |-> TRUE]
        ELSE LET first == CHOOSE i \in stops : \A j \in stops : i <= j
             IN  [ok |-> walk[first].ok, value |-> FALSE]

\* Faulty variant of query: a command that cannot be run counts as true.
query_unreachable_true(self, verb, s, f, o) ==
    LET argv == <<"systemctl">> \o prepare_systemctl_args(self,
                    <<verb, "--quiet", service_name(self)>>)
        run == Systemctl(argv, s, f, o)
    IN  [value |-> IF run.status = "unreachable" THEN TRUE ELSE run.status = "success",
         ev |-> ExecEv(argv, run.status)]

\* One query of App::get_status: systemctl <verb> --quiet <unit>, its exit
\* status mapped to a boolean, false when the command cannot be run.
query(self, verb, s, f, o) ==
    LET argv == <<"systemctl">> \o prepare_systemctl_args(self,
                    <<verb, "--quiet", service_name(self)>>)
        run == Systemctl(argv, s, f, o)
    IN  [value |-> IF run.status = "unreachable" THEN FALSE ELSE run.status = "success",
         ev |-> ExecEv(argv, run.status)]

\* Faulty variant of get_status: enabled is looked at before active.
get_status_enabled_first(self, f, s, e) ==
    LET inst == files_installed(self, f, e.walk)
        is_active == query(self, "is-active", s, f, e.active)
        is_enabled == query(self, "is-enabled", s, f, e.enabled)
    IN  IF ~inst.ok THEN Outcome("Err", f, s, <<>>)
        ELSE IF ~inst.value THEN Outcome("NotInstalled", f, s, <<>>)
        ELSE IF is_enabled.value THEN Outcome("Stopped", f, s, <<is_enabled.ev>>)
        ELSE IF is_active.value
             THEN Outcome("Running", f, s, <<is_enabled.ev, is_active.ev>>)
        ELSE Outcome("Installed", f, s, <<is_enabled.ev, is_active.ev>>)

\* App::get_status; e.walk is the order of the walk, e.active and e.enabled
\* are what the host does with the is-active and the is-enabled query.
get_status(self, f, s, e) ==
    LET inst == files_installed(self, f, e.walk)
        is_active == query(self, "is-active", s, f, e.active)
        is_enabled == query(self, "is-enabled", s, f, e.enabled)
    IN  IF ~inst.ok THEN Outcome("Err", f, s, <<>>)
        ELSE IF ~inst.value THEN Outcome("NotInstalled", f, s, <<>>)
        ELSE IF is_active.value THEN Outcome("Running", f, s, <<is_active.ev>>)
        ELSE IF is_enabled.value
             THEN Outcome("Stopped", f, s, <<is_active.ev, is_enabled.ev>>)
        ELSE Outcome("Installed", f, s, <<is_active.ev, is_enabled.ev>>)

\* Faulty variant of dry_run_install: the first planned copy is carried out.
dry_run_install_copies(self, files, f, s) ==
    Outcome("Ok", [f EXCEPT ![target_path(self, files[1])] = f[files[1]]], s,
            [i \in 1..Len(files) |-> PlanEv("copy", files[i], target_path(self, files[i]))]
                \o <<PlanEv("reload+start", NoPath, NoPath)>>)

\* The dry-run branch of App::install: report the planned copies and the
\* planned reload and start.
dry_run_install(self, files, f, s) ==
    Outcome("Ok", f, s,
            [i \in 1..Len(files) |-> PlanEv("copy", files[i], target_path(self, files[i]))]
                \o <<PlanEv("reload+start", NoPath, NoPath)>>)

\* Faulty variant of Collides: only the first file of the manifest is checked.
Collides_first_only(self, files, f, force) ==
    exists(f, target_path(self, files[1])) /\ ~force

\* The collision check of App::install: a file whose target exists while force
\* is not set aborts the install.
Collides(self, files, f, force) ==
    \E i \in 1..Len(files) : exists(f, target_path(self, files[i])) /\ ~force

\* Faulty variant of CopyFiles: a failed copy is skipped and the loop goes on.
RECURSIVE CopyFiles_goes_on(_, _, _, _, _, _, _)
CopyFiles_goes_on(self, files, i, f, trace, fail, left) ==
    IF i > Len(files) THEN [ok |-> fail = 0, fs |-> f, trace |-> trace]
    ELSE LET file == files[i]
             target == target_path(self, file)
         IN  IF i = fail
             THEN CopyFiles_goes_on(self, files, i + 1,
                                    [f EXCEPT ![target] = IF left = Unchanged THEN @ ELSE left],
                                    Append(trace, CopyEv(file, target, "failed")), fail, left)
             ELSE CopyFiles_goes_on(self, files, i + 1,
                                    [f EXCEPT ![target] = f[file]],
                                    Append(trace, CopyEv(file, target, "ok")), fail, left)

\* The copy loop of App::install from the i-th file on: fs::copy of each file
\* to its target path, stopping at the first copy that fails. `fail` is the
\* index of the file whose copy the host refuses (0: none), `left` what the
\* failed copy leaves at its target.
RECURSIVE CopyFiles(_, _, _, _, _, _, _)
CopyFiles(self, files, i, f, trace, fail, left) ==
    IF i > Len(files) THEN [ok |-> TRUE, fs |-> f, trace |-> trace]
    ELSE LET file == files[i]
             target == target_path(self, file)
         IN  IF i = fail
             THEN [ok |-> FALSE,
                   fs |-> [f EXCEPT ![target] = IF left = Unchanged THEN @ ELSE left],
                   trace |-> Append(trace, CopyEv(file, target, "failed"))]
             ELSE CopyFiles(self, files, i + 1,
                            [f EXCEPT ![target] = f[file]],
                            Append(trace, CopyEv(file, target, "ok")), fail, left)

\* The post-copy phase of App::install: the reload and the start invocation;
\* each returns an error only when the command cannot be run.
reload_and_start(self, f, s, trace, e) ==
    LET argvR == <<"systemctl">> \o prepare_systemctl_args(self, <<"daemon-relaod">>)
        reload == Systemctl(argvR, s, f, e.reload)
        traceR == Append(trace, ExecEv(argvR, reload.status))
        argvS == <<"systemctl">> \o prepare_systemctl_args(self,
                    <<"start", service_name(self)>>)
        start == Systemctl(argvS, reload.sm, f, e.start)
        traceS == Append(traceR, ExecEv(argvS, start.status))
    IN  IF reload.status = "unreachable"
        THEN Outcome("CommandError", f, reload.sm, traceR)
        ELSE IF start.status = "unreachable"
             THEN Outcome("CommandError", f, start.sm, traceS)
        ELSE Outcome("Ok", f, start.sm, traceS)

\* App::install; e.walk is the order of the walk, e.copy_fail, e.copy_left,
\* e.reload and e.start are what the host does with the copies and with the
\* two systemctl invocations.
install(self, f, s, dry_run, force, e) ==
    LET app_files == get_app_files(self, f, e.walk)
    IN  IF ~app_files.ok THEN Outcome("ManifestError", f, s, <<>>)
        ELSE IF is_empty(app_files.files) THEN Outcome("EmptyManifest", f, s, <<>>)
        ELSE IF dry_run THEN dry_run_install(self, app_files.files, f, s)
        ELSE IF Collides(self, app_files.files, f, force)
             THEN Outcome("Collision", f, s, <<>>)
        ELSE LET copy == CopyFiles(self, app_files.files, 1, f, <<>>, e.copy_fail,
                                   e.copy_left)
             IN  IF ~copy.ok THEN Outcome("CopyError", copy.fs, s, copy.trace)
                 ELSE reload_and_start(self, copy.fs, s, copy.trace, e)

\* The dry-run branch of App::uninstall: report the planned stop and the
\* planned removal of each file of app_files.
dry_run_uninstall(self, files, f, s) ==
    Outcome("Ok", f, s,
            <<PlanEv("stop", NoPath, NoPath)>>
                \o [i \in 1..Len(files) |-> PlanEv("remove", NoPath, files[i])])

\* Faulty variant of declined: the test of the answer is inverted.
declined_inverted(answer) == answer = "yes"

\* if !confirmation: the prompt was answered negatively
declined(answer) == answer = "no"

\* The removal loop of App::uninstall from the i-th file on: fs::remove_file
\* of each file of app_files, its result discarded. `fail` is the set of the
\* indices of the files the host refuses to remove.
RECURSIVE RemoveFiles(_, _, _, _, _)
RemoveFiles(files, i, f, trace, fail) ==
    IF i > Len(files) THEN [fs |-> f, trace |-> trace]
    ELSE LET file == files[i]
         IN  IF i \in fail
             THEN RemoveFiles(files, i + 1, f,
                              Append(trace, RemoveEv(file, "failed")), fail)
             ELSE RemoveFiles(files, i + 1, [f EXCEPT ![file] = NoFile],
                              Append(trace, RemoveEv(file, "ok")), fail)

\* Faulty variant of stop_remove_reload: a stop that does not succeed aborts
\* the uninstall.
stop_remove_reload_strict(self, files, f, s, trace, e) ==
    LET argvS == <<"systemctl">> \o prepare_systemctl_args(self,
                    <<"stop", service_name(self)>>)
        stop == Systemctl(argvS, s, f, e.stop)
        removal == RemoveFiles(files, 1, f, Append(trace, ExecEv(argvS, stop.status)),
                               e.remove_fail)
        argvR == <<"systemctl">> \o prepare_systemctl_args(self, <<"daemon-reload">>)
        reload == Systemctl(argvR, stop.sm, removal.fs, e.reload)
        traceR == Append(removal.trace, ExecEv(argvR, reload.status))
    IN  IF stop.status # "success"
        THEN Outcome("CommandError", f, stop.sm, Append(trace, ExecEv(argvS, stop.status)))
        ELSE IF reload.status = "unreachable"
        THEN Outcome("CommandError", removal.fs, reload.sm, traceR)
        ELSE Outcome("Ok", removal.fs, reload.sm, traceR)

\* The stop, removal and reload phases of App::uninstall: the stop's result is
\* discarded, the reload returns an error only when it cannot be run.
stop_remove_reload(self, files, f, s, trace, e) ==
    LET argvS == <<"systemctl">> \o prepare_systemctl_args(self,
                    <<"stop", service_name(self)>>)
        stop == Systemctl(argvS, s, f, e.stop)
        removal == RemoveFiles(files, 1, f, Append(trace, ExecEv(argvS, stop.status)),
                               e.remove_fail)
        argvR == <<"systemctl">> \o prepare_systemctl_args(self, <<"daemon-reload">>)
        reload == Systemctl(argvR, stop.sm, removal.fs, e.reload)
        traceR == Append(removal.trace, ExecEv(argvR, reload.status))
    IN  IF reload.status = "unreachable"
        THEN Outcome("CommandError", removal.fs, reload.sm, traceR)
        ELSE Outcome("Ok", removal.fs, reload.sm, traceR)

\* App::uninstall; e.walk is the order of the walk, e.confirm the answer to
\* the prompt ("yes", "no" or "error"), e.stop and e.reload what the host does with the two systemctl
\* invocations, e.remove_fail the files it refuses to remove.
uninstall(self, f, s, dry_run, force, e) ==
    LET app_files == get_app_files(self, f, e.walk)
    IN  IF ~app_files.ok THEN Outcome("ManifestError", f, s, <<>>)
        ELSE IF is_empty(app_files.files) THEN Outcome("EmptyManifest", f, s, <<>>)
        ELSE IF dry_run THEN dry_run_uninstall(self, app_files.files, f, s)
        ELSE IF force
             THEN stop_remove_reload(self, app_files.files, f, s, <<>>, e)
        ELSE IF e.confirm = "error"
             THEN Outcome("ConfirmError", f, s, <<ConfirmEv(e.confirm)>>)
        ELSE IF declined(e.confirm)
             THEN Outcome("Ok", f, s, <<ConfirmEv(e.confirm)>>)
        ELSE stop_remove_reload(self, app_files.files, f, s,
                                <<ConfirmEv(e.confirm)>>, e)

\* -------------------------------------------- ServiceController (systemd.rs)

\* systemd.rs is_active / is_enabled share one body but for the query verb.
\* The result is Ok(bool) or Err.
systemd_query(verb, name, rootful, s, f, o) ==
    LET args0 == <<verb, "--quiet", name>>
        args == IF rootful THEN <<"systemctl">> \o args0 ELSE <<"--user">> \o args0
        command == IF rootful THEN "sudo" ELSE "systemctl"
        run == Systemctl(<<command>> \o args, s, f, o)
    IN  IF run.status = "unreachable"
        THEN Outcome("Err", f, s, <<ExecEv(<<command>> \o args, run.status)>>)
        ELSE Outcome(IF run.status = "success" THEN "true" ELSE "false", f, s,
                     <<ExecEv(<<command>> \o args, run.status)>>)

is_active(name, rootful, s, f, o) == systemd_query("is-active", name, rootful, s, f, o)

is_enabled(name, rootful, s, f, o) == systemd_query("is-enabled", name, rootful, s, f, o)

\* The directory of the executable, which holds one directory per application.
RepoDir == "repo"

\* What reading and parsing a config.toml gives: the file cannot be read
\* ("missing"), it is not well-formed ("malformed"), or it holds the install
\* location and the use_user flag ("ok").
ConfigStatus == {"ok", "missing", "malformed"}

NoApp == [name |-> "", app_dir |-> "", systemd_dir |-> "", use_user |-> FALSE]

\* App::new: `config` is what reading and parsing <name>/config.toml gives,
\* the path being resolved against the working directory of the process; the
\* application's directory is <name> below the directory of the executable.
App_new(name, config) ==
    IF config.status # "ok" THEN [ok |-> FALSE, app |-> NoApp]
    ELSE [ok |-> TRUE,
          app |-> [name |-> name,
                   app_dir |-> RepoDir \o "/" \o name,
                   systemd_dir |-> config.install_location,
                   use_user |-> config.use_user]]

\* Manager::status with an application name: App::new, then get_status
status_app(name, config, f, s, e) ==
    LET new == App_new(name, config)
    IN  IF ~new.ok THEN Outcome("ConfigError", f, s, <<>>)
        ELSE get_status(new.app, f, s, e)

\* Manager::install_apps with an application name: App::new, then install
install_app(name, config, f, s, dry_run, force, e) ==
    LET new == App_new(name, config)
    IN  IF ~new.ok THEN Outcome("ConfigError", f, s, <<>>)
        ELSE install(new.app, f, s, dry_run, force, e)

\* Manager::uninstall_apps with an application name: App::new, then uninstall
uninstall_app(name, config, f, s, dry_run, force, e) ==
    LET new == App_new(name, config)
    IN  IF ~new.ok THEN Outcome("ConfigError", f, s, <<>>)
        ELSE uninstall(new.app, f, s, dry_run, force, e)

\* ------------------------------------------------------------ the program

\* The filesystems the program can be started on: the source directory is
\* missing altogether, or it holds conf.d, any of the unit files and, unless
\* the configuration is read from another working directory, config.toml, and
\* conf.d may be closed to the process; the target directory holds
\* any of the unit files, with the content of the source file or with another
\* content.
InitFs ==
    {f \in [Paths -> {NoFile, Dir, Locked, SourceContent, OtherContent}] :
        /\ f[<<SystemdDir, <<>>>>] = Dir
        /\ \A r \in UnitRels : f[<<SystemdDir, r>>] \notin {Dir, Locked}
        /\ f[<<AppDir, <<>>>>] \in {Dir, NoFile}
        /\ \A r \in UnitRels : f[<<AppDir, r>>] \in {NoFile, SourceContent}
        /\ IF f[<<AppDir, <<>>>>] = Dir
           THEN /\ f[<<AppDir, <<"conf.d">>>>] \in {Dir, Locked}
                /\ f[<<AppDir, <<CONFIG_FILE_NAME>>>>] \in {NoFile, SourceContent}
           ELSE \A i \in 2..Len(WalkOrder) : f[<<AppDir, WalkOrder[i]>>] = NoFile}

\* The service manager's states for the application's unit: active or not,
\* enabled or not, and whether its unit cache holds the unit file (it does
\* when the file was in the target directory at the last daemon-reload).
InitSm(name, f) ==
    [active : BOOLEAN, enabled : BOOLEAN, unit : {name},
     loaded : {UnitOnDisk(f, name)}]

\* No operation has run yet in this process.
NoOp ==
    [op |-> "none", dry_run |-> FALSE, force |-> FALSE, result |-> "none",
     trace |-> <<>>]

\* No repository directory is looked at by a command that names its application.
NoFleet == [entries |-> <<>>, cwd |-> <<>>, fs |-> <<>>, sm |-> <<>>]

\* No fleet-wide operation has run yet in this process.
NoBatch ==
    [op |-> "none", dry_run |-> FALSE, force |-> FALSE, result |-> "none",
     calls |-> <<>>, before |-> NoFleet]

\* The working directories the process can be started in: <name>/config.toml
\* is there and well-formed, is there and malformed, or cannot be read.
InitWorkdir ==
    [{AppName} -> [status : ConfigStatus, install_location : {SystemdDir},
                   use_user : BOOLEAN]]

\* `app` is the App that App::new builds from a well-formed configuration.
Init ==
    /\ workdir \in InitWorkdir
    /\ app = App_new(AppName, [workdir[AppName] EXCEPT !.status = "ok"]).app
    /\ fs \in InitFs
    /\ sm \in InitSm(service_name(app), fs)
    /\ last = NoOp
    /\ prev = [fs |-> fs, sm |-> sm]
    /\ step = "idle"
    /\ fleet = NoFleet
    /\ batch = NoBatch

\* An operation ran: record it, the state it started from and the state it
\* left.  A command whose App::new fails runs no operation of the application:
\* the operation recorded is "new".
Ran(op, dry_run, force, out) ==
    /\ fs' = out.fs
    /\ sm' = out.sm
    /\ last' = [op |-> IF out.result = "ConfigError" THEN "new" ELSE op,
                dry_run |-> dry_run, force |-> force,
                result |-> out.result, trace |-> out.trace]
    /\ prev' = [fs |-> fs, sm |-> sm]
    /\ UNCHANGED <<app, workdir, fleet, batch>>

\* What the host may do during one call. An operation that returns before it
\* copies, removes, prompts or invokes anything does not consult the host.
QueryEnv == [walk : WalkOrders, active : Outcomes, enabled : Outcomes]

InstallEnv(dry_run) ==
    IF dry_run
    THEN [walk : WalkOrders, copy_fail : {0}, copy_left : {Unchanged},
          reload : {"runs"}, start : {"runs"}]
    ELSE [walk : WalkOrders, copy_fail : {0}, copy_left : {Unchanged},
          reload : Outcomes, start : Outcomes]
         \cup [walk : WalkOrders, copy_fail : 1..MaxFiles, copy_left : CopyLeft,
                reload : {"runs"}, start : {"runs"}]

UninstallEnv(dry_run, force) ==
    IF dry_run
    THEN [walk : WalkOrders, confirm : {"yes"}, stop : {"runs"}, reload : {"runs"},
          remove_fail : {{}}]
    ELSE [walk : WalkOrders, confirm : {"yes"}, stop : Outcomes, reload : Outcomes,
          remove_fail : SUBSET (1..MaxFiles)]
         \cup (IF force THEN {}
               ELSE [walk : WalkOrders, confirm : {"no", "error"}, stop : {"runs"},
                     reload : {"runs"}, remove_fail : {{}}])

\* main: one process runs one command and exits. A command is dispatched
\* only by a process that has not run one yet.
Fresh == last.op = "none" /\ step = "idle"

\* Manager::status on the application
GetStatus ==
    /\ Fresh
    /\ \E e \in QueryEnv : Ran("get_status", FALSE, FALSE,
                           status_app(app.name, workdir[app.name], fs, sm, e))
    /\ UNCHANGED step

\* Manager::install_apps on the application
Install ==
    /\ Fresh
    /\ \E dry_run \in BOOLEAN, force \in BOOLEAN :
        \E e \in InstallEnv(dry_run) :
            Ran("install", dry_run, force,
                install_app(app.name, workdir[app.name], fs, sm, dry_run, force, e))
    /\ UNCHANGED step

\* Manager::uninstall_apps on the application
Uninstall ==
    /\ Fresh
    /\ \E dry_run \in BOOLEAN, force \in BOOLEAN :
        \E e \in UninstallEnv(dry_run, force) :
            Ran("uninstall", dry_run, force,
                uninstall_app(app.name, workdir[app.name], fs, sm, dry_run, force, e))
    /\ UNCHANGED step

\* systemd::is_active on the application's unit
IsActive ==
    /\ Fresh
    /\ \E rootful \in BOOLEAN, o \in Outcomes :
        Ran("is_active", FALSE, FALSE, is_active(service_name(app), rootful, sm, fs, o))
    /\ UNCHANGED step

\* systemd::is_enabled on the application's unit
IsEnabled ==
    /\ Fresh
    /\ \E rootful \in BOOLEAN, o \in Outcomes :
        Ran("is_enabled", FALSE, FALSE, is_enabled(service_name(app), rootful, sm, fs, o))
    /\ UNCHANGED step

\* main returns: the process ends, the filesystem and the service manager
\* stay as the command left them, and the next process starts from there.
Exit ==
    /\ last.op # "none"
    /\ step = "idle"
    /\ last' = NoOp
    /\ prev' = [fs |-> fs, sm |-> sm]
    /\ UNCHANGED <<app, workdir, fs, sm, step, fleet, batch>>

Next == GetStatus \/ Install \/ Uninstall \/ IsActive \/ IsEnabled \/ Exit

Spec == Init /\ [][Next]_vars

\* ------------------------------------------------ the end-to-end scenario

\* The scenario's application: its configuration can be read, its source
\* directory holds at least one unit file and none of the target paths exists.
LifecycleInit ==
    /\ Init
    /\ workdir[app.name].status = "ok"
    /\ is_dir(fs, join(app.app_dir, <<>>))
    /\ \E r \in UnitRels : exists(fs, join(app.app_dir, r))
    /\ \A r \in UnitRels : ~exists(fs, join(app.systemd_dir, r))

\* getStatus before the install
LcStatusBefore ==
    /\ step = "idle"
    /\ \E e \in QueryEnv : Ran("get_status", FALSE, FALSE,
                           status_app(app.name, workdir[app.name], fs, sm, e))
    /\ step' = "checked"

\* install(dryRun=false, force=false); the scenario goes on when it succeeds
LcInstall ==
    /\ step = "checked"
    /\ \E e \in InstallEnv(FALSE) :
        LET out == install_app(app.name, workdir[app.name], fs, sm, FALSE, FALSE, e)
        IN  /\ Ran("install", FALSE, FALSE, out)
            /\ step' = IF out.result = "Ok" THEN "installed" ELSE "aborted"

\* getStatus after the install
LcStatusInstalled ==
    /\ step = "installed"
    /\ \E e \in QueryEnv : Ran("get_status", FALSE, FALSE,
                           status_app(app.name, workdir[app.name], fs, sm, e))
    /\ step' = "observed"

\* uninstall(force=true); the scenario goes on when it succeeds
LcUninstall ==
    /\ step = "observed"
    /\ \E e \in UninstallEnv(FALSE, TRUE) :
        LET out == uninstall_app(app.name, workdir[app.name], fs, sm, FALSE, TRUE, e)
        IN  /\ Ran("uninstall", FALSE, TRUE, out)
            /\ step' = IF out.result = "Ok" THEN "uninstalled" ELSE "aborted"

\* getStatus after the uninstall
LcStatusAfter ==
    /\ step = "uninstalled"
    /\ \E e \in QueryEnv : Ran("get_status", FALSE, FALSE,
                           status_app(app.name, workdir[app.name], fs, sm, e))
    /\ step' = "done"

LifecycleNext ==
    LcStatusBefore \/ LcInstall \/ LcStatusInstalled \/ LcUninstall \/ LcStatusAfter

Lifecycle == LifecycleInit /\ [][LifecycleNext]_vars

\* ------------------------------------------------- the fleet (manager.rs)

\* The names of the repository directory's entries, by position in its listing.
EntryNames == <<"api", "db", "web", "mail">>

\* str::starts_with
starts_with(name, prefix) ==
    Len(name) >= Len(prefix) /\ SubSeq(name, 1, Len(prefix)) = prefix

\* The test of Manager::discover_apps on one entry of the listing
is_candidate(entry) == entry.kind = "dir" /\ ~starts_with(entry.name, ".")

\* The loop of Manager::discover_apps from the i-th entry on, `cwd` giving
\* for each name what <name>/config.toml is from the working directory.  An
\* entry that read_dir fails to yield ends the discovery with the error; a
\* name that is not UTF-8 aborts the process at to_str().unwrap(), whatever
\* the entry is; the first candidate whose App::new fails ends the discovery
\* with its error.
RECURSIVE discover_from(_, _, _, _)
discover_from(entries, cwd, i, apps) ==
    IF i > Len(entries) THEN [ok |-> TRUE, error |-> "none", apps |-> apps]
    ELSE IF entries[i].kind = "error"
    THEN [ok |-> FALSE, error |-> "ListError", apps |-> <<>>]
    ELSE IF ~entries[i].utf8
    THEN [ok |-> FALSE, error |-> "Panic", apps |-> <<>>]
    ELSE IF is_candidate(entries[i])
    THEN LET new == App_new(entries[i].name, cwd[entries[i].name])
         IN  IF ~new.ok THEN [ok |-> FALSE, error |-> "ConfigError", apps |-> <<>>]
             ELSE discover_from(entries, cwd, i + 1, Append(apps, new.app))
    ELSE discover_from(entries, cwd, i + 1, apps)

\* Manager::discover_apps: fs::read_dir of the repository directory, then the
\* loop over its entries in the order read_dir yields them.
discover_apps(entries, cwd, readable) ==
    IF ~readable THEN [ok |-> FALSE, error |-> "ListError", apps |-> <<>>]
    ELSE discover_from(entries, cwd, 1, <<>>)

\* One application's turn in a fleet-wide operation: its name, the result of
\* its operation and what the operation did.
Call(self, out) == [app |-> self.name, result |-> out.result, trace |-> out.trace]

\* The fleet after an application's operation left filesystem and unit state.
After(fl, self, out) == [fl EXCEPT !.fs = out.fs, !.sm[self.name] = out.sm]

\* The outcome of a fleet-wide operation.
BatchOutcome(result, fl, calls) == [result |-> result, fleet |-> fl, calls |-> calls]

\* The loop of Manager::status over the discovered applications
RECURSIVE status_each(_, _, _, _, _)
status_each(apps, i, fl, envs, calls) ==
    IF i > Len(apps) THEN BatchOutcome("Ok", fl, calls)
    ELSE LET self == apps[i]
             out == get_status(self, fl.fs, fl.sm[self.name], envs[i])
         IN  IF out.result = "Err"
             THEN BatchOutcome(out.result, After(fl, self, out), Append(calls, Call(self, out)))
             ELSE status_each(apps, i + 1, After(fl, self, out), envs,
                              Append(calls, Call(self, out)))

\* Manager::status without an application name
status(fl, readable, envs) ==
    LET found == discover_apps(fl.entries, fl.cwd, readable)
    IN  IF ~found.ok THEN BatchOutcome(found.error, fl, <<>>)
        ELSE IF found.apps = <<>> THEN BatchOutcome("Ok", fl, <<>>)
        ELSE status_each(found.apps, 1, fl, envs, <<>>)

\* Faulty variant of install_each: an application whose install failed is
\* skipped and the loop goes on; the first error is returned at the end.
RECURSIVE install_each_goes_on(_, _, _, _, _, _, _)
install_each_goes_on(apps, i, fl, dry_run, force, envs, calls) ==
    IF i > Len(apps)
    THEN BatchOutcome(IF \E k \in 1..Len(calls) : calls[k].result # "Ok"
                      THEN calls[CHOOSE k \in 1..Len(calls) :
                                    /\ calls[k].result # "Ok"
                                    /\ \A j \in 1..(k - 1) : calls[j].result = "Ok"].result
                      ELSE "Ok", fl, calls)
    ELSE LET self == apps[i]
             out == install(self, fl.fs, fl.sm[self.name], dry_run, force, envs[i])
         IN  install_each_goes_on(apps, i + 1, After(fl, self, out), dry_run, force, envs,
                                  Append(calls, Call(self, out)))

\* The loop of Manager::install_apps over the discovered applications
RECURSIVE install_each(_, _, _, _, _, _, _)
install_each(apps, i, fl, dry_run, force, envs, calls) ==
    IF i > Len(apps) THEN BatchOutcome("Ok", fl, calls)
    ELSE LET self == apps[i]
             out == install(self, fl.fs, fl.sm[self.name], dry_run, force, envs[i])
         IN  IF out.result # "Ok"
             THEN BatchOutcome(out.result, After(fl, self, out), Append(calls, Call(self, out)))
             ELSE install_each(apps, i + 1, After(fl, self, out), dry_run, force, envs,
                               Append(calls, Call(self, out)))

\* Manager::install_apps without an application name
install_apps(fl, dry_run, force, readable, envs) ==
    LET found == discover_apps(fl.entries, fl.cwd, readable)
    IN  IF ~found.ok THEN BatchOutcome(found.error, fl, <<>>)
        ELSE IF found.apps = <<>> THEN BatchOutcome("Ok", fl, <<>>)
        ELSE install_each(found.apps, 1, fl, dry_run, force, envs, <<>>)

\* The loop of Manager::uninstall_apps over the discovered applications
RECURSIVE uninstall_each(_, _, _, _, _, _, _)
uninstall_each(apps, i, fl, dry_run, force, envs, calls) ==
    IF i > Len(apps) THEN BatchOutcome("Ok", fl, calls)
    ELSE LET self == apps[i]
             out == uninstall(self, fl.fs, fl.sm[self.name], dry_run, force, envs[i])
         IN  IF out.result # "Ok"
             THEN BatchOutcome(out.result, After(fl, self, out), Append(calls, Call(self, out)))
             ELSE uninstall_each(apps, i + 1, After(fl, self, out), dry_run, force, envs,
                                 Append(calls, Call(self, out)))

\* Manager::uninstall_apps without an application name
uninstall_apps(fl, dry_run, force, readable, envs) ==
    LET found == discover_apps(fl.entries, fl.cwd, readable)
    IN  IF ~found.ok THEN BatchOutcome(found.error, fl, <<>>)
        ELSE uninstall_each(found.apps, 1, fl, dry_run, force, envs, <<>>)

\* The paths of the entry called `name`: its directory in the repository and
\* the install location its configuration names.
MemberPaths(name) ==
    {<<RepoDir \o "/" \o name, WalkOrder[i]>> : i \in 1..Len(WalkOrder)}
        \cup {<<SystemdDir \o "/" \o name, <<>>>>}
        \cup {<<SystemdDir \o "/" \o name, r>> : r \in UnitRels}

\* What the i-th entry of the repository directory can be.  `config` is its
\* own config.toml and `read` the <name>/config.toml of the working directory,
\* which are one file when the process is started in the repository directory:
\* an application (its unit files in the source directory or none, its target
\* paths free or all taken); a directory whose configuration cannot be read or
\* parsed; started elsewhere, a directory without configuration whose name has
\* one in the working directory, and a directory with a configuration whose
\* name has none there; a dot-prefixed directory; a regular file, its name
\* UTF-8 or not; an entry that read_dir fails to yield.
EntryOptions(i) ==
    [name : {EntryNames[i]}, kind : {"dir"}, utf8 : {TRUE},
     config : {"ok"}, read : {"ok"}, source : {"full"}, targets : {"none", "all"}]
    \cup [name : {EntryNames[i]}, kind : {"dir"}, utf8 : {TRUE},
          config : {"ok"}, read : {"ok"}, source : {"empty"}, targets : {"none"}]
    \cup {[name |-> EntryNames[i], kind |-> "dir", utf8 |-> TRUE,
           config |-> c, read |-> c, source |-> "full", targets |-> "none"] :
            c \in ConfigStatus \ {"ok"}}
    \cup [name : {EntryNames[i]}, kind : {"dir"}, utf8 : {TRUE},
          config : {"missing"}, read : {"ok"}, source : {"full"}, targets : {"none"}]
    \cup [name : {EntryNames[i]}, kind : {"dir"}, utf8 : {TRUE},
          config : {"ok"}, read : {"missing"}, source : {"full"}, targets : {"none"}]
    \cup [name : {"." \o EntryNames[i]}, kind : {"dir"}, utf8 : {TRUE},
          config : {"missing"}, read : {"missing"}, source : {"full"}, targets : {"none"}]
    \cup [name : {EntryNames[i]}, kind : {"file"}, utf8 : BOOLEAN,
          config : {"missing"}, read : {"missing"}, source : {"empty"}, targets : {"none"}]
    \cup [name : {EntryNames[i]}, kind : {"error"}, utf8 : {TRUE},
          config : {"missing"}, read : {"missing"}, source : {"empty"}, targets : {"none"}]

\* The files of one entry
EntryFs(o) ==
    [p \in MemberPaths(o.name) |->
        IF o.kind # "dir" THEN NoFile
        ELSE IF p[1] = RepoDir \o "/" \o o.name
        THEN IF p[2] \in {<<>>, <<"conf.d">>} THEN Dir
             ELSE IF p[2] = <<CONFIG_FILE_NAME>>
             THEN IF o.config = "missing" THEN NoFile ELSE SourceContent
             ELSE IF o.source = "full" THEN SourceContent ELSE NoFile
        ELSE IF p[2] = <<>> THEN Dir
             ELSE IF o.targets = "all" THEN OtherContent ELSE NoFile]

\* The fleet of a listing: the entries in read_dir's order, what the working
\* directory holds as <name>/config.toml for each of them, the filesystem below
\* them, and one unit per entry (running when its files are in place).
FleetOf(layout) ==
    [entries |-> [i \in 1..Len(layout) |->
                    [name |-> layout[i].name, kind |-> layout[i].kind,
                     utf8 |-> layout[i].utf8,
                     config |-> [status |-> layout[i].config,
                                 install_location |-> SystemdDir \o "/" \o layout[i].name,
                                 use_user |-> FALSE]]],
     cwd |-> [n \in {layout[i].name : i \in 1..Len(layout)} |->
                LET i == CHOOSE k \in 1..Len(layout) : layout[k].name = n
                IN  [status |-> layout[i].read,
                     install_location |-> SystemdDir \o "/" \o n,
                     use_user |-> FALSE]],
     fs |-> [p \in UNION {MemberPaths(layout[i].name) : i \in 1..Len(layout)} |->
                EntryFs(layout[CHOOSE i \in 1..Len(layout) :
                                    p \in MemberPaths(layout[i].name)])[p]],
     sm |-> [n \in {layout[i].name : i \in 1..Len(layout)} |->
                [active |-> \E i \in 1..Len(layout) :
                                layout[i].name = n /\ layout[i].targets = "all",
                 enabled |-> FALSE, unit |-> n \o ".service", loaded |-> FALSE]]]

\* The listings of MaxEntries entries of which at most MaxApps are
\* applications.
Layouts == {l \in [1..MaxEntries -> UNION {EntryOptions(i) : i \in 1..MaxEntries}] :
                /\ \A i \in 1..MaxEntries : l[i] \in EntryOptions(i)
                /\ Cardinality({i \in 1..MaxEntries :
                        is_candidate(l[i]) /\ l[i].read = "ok"}) <= MaxApps}

\* A process started without an application name, in a repository directory
\* of MaxEntries entries.
FleetInit ==
    /\ app = [name |-> AppName, app_dir |-> AppDir, systemd_dir |-> SystemdDir,
              use_user |-> FALSE]
    /\ workdir = [n \in {AppName} |-> [status |-> "missing",
                                       install_location |-> SystemdDir,
                                       use_user |-> FALSE]]
    /\ fs = [p \in Paths |-> IF p = <<SystemdDir, <<>>>> THEN Dir ELSE NoFile]
    /\ sm = [active |-> FALSE, enabled |-> FALSE, unit |-> service_name(app),
             loaded |-> FALSE]
    /\ last = NoOp
    /\ prev = [fs |-> fs, sm |-> sm]
    /\ step = "idle"
    /\ \E l \in Layouts : fleet = FleetOf(l)
    /\ batch = NoBatch

\* The host's choices for the turn of every discovered application, each
\* turn's drawn from `choices`, what the host may do during the operation on
\* one application; there is no turn when the discovery fails.
Turns(readable, choices) ==
    [1..Len(discover_apps(fleet.entries, fleet.cwd, readable).apps) -> choices]

\* A fleet-wide operation ran: record it, the fleet it started from and the
\* fleet it left.
Batched(op, dry_run, force, out) ==
    /\ fleet' = out.fleet
    /\ batch' = [op |-> op, dry_run |-> dry_run, force |-> force,
                 result |-> out.result, calls |-> out.calls, before |-> fleet]
    /\ UNCHANGED <<app, workdir, fs, sm, last, prev, step>>

\* main dispatching `status` without an application name
FleetStatus ==
    /\ batch.op = "none"
    /\ \E readable \in BOOLEAN :
        \E envs \in Turns(readable, QueryEnv) :
            Batched("status", FALSE, FALSE, status(fleet, readable, envs))

\* main dispatching `install` without an application name
FleetInstall ==
    /\ batch.op = "none"
    /\ \E dry_run \in BOOLEAN, force \in BOOLEAN, readable \in BOOLEAN :
        \E envs \in Turns(readable, InstallEnv(dry_run)) :
            Batched("install", dry_run, force,
                    install_apps(fleet, dry_run, force, readable, envs))

\* main dispatching `uninstall` without an application name
FleetUninstall ==
    /\ batch.op = "none"
    /\ \E dry_run \in BOOLEAN, force \in BOOLEAN, readable \in BOOLEAN :
        \E envs \in Turns(readable, UninstallEnv(dry_run, force)) :
            Batched("uninstall", dry_run, force,
                    uninstall_apps(fleet, dry_run, force, readable, envs))

FleetNext == FleetStatus \/ FleetInstall \/ FleetUninstall

Fleet == FleetInit /\ [][FleetNext]_vars

\* ------------------------------------------------------------ properties

\* The manifest as the specification defines it: the regular files below the
\* source directory other than the configuration file.
SourceFiles(f) ==
    {p \in DOMAIN f : /\ p[1] = app.app_dir
                      /\ f[p] \notin {NoFile, Dir, Locked}
                      /\ p[2] # <<CONFIG_FILE_NAME>>}

\* The source directory can be walked: it is a directory, and it and every
\* directory below it can be listed.
Walkable(f) ==
    /\ f[<<app.app_dir, <<>>>>] = Dir
    /\ \A p \in DOMAIN f : p[1] = app.app_dir => f[p] # Locked

\* The manifest is defined and holds at least one file.
NonEmptyManifest(f) == Walkable(f) /\ SourceFiles(f) # {}

\* A source file's path re-rooted onto the target directory.
TargetOf(p) == <<app.systemd_dir, p[2]>>

\* The events of the last operation.
Events == {last.trace[i] : i \in 1..Len(last.trace)}
Execs == {ev \in Events : ev.kind = "exec"}
Issued(word) == \E ev \in Execs : \E i \in 1..Len(ev.args) : ev.args[i] = word

\* The last operation left the filesystem and the service manager as they were.
Untouched == fs = prev.fs /\ sm = prev.sm

RealInstall == last.op = "install" /\ ~last.dry_run
RealUninstall == last.op = "uninstall" /\ ~last.dry_run

\* C1: lifecycle round trip: get_status is NotInstalled before the install,
\* Running after a successful install(false, false) when the service manager
\* reports the unit active, and NotInstalled again after a successful
\* uninstall(false, true).
C1RoundTrip ==
    /\ step = "checked" => last.result = "NotInstalled"
    /\ (step = "observed" /\ sm.active
            /\ \A ev \in Execs : ev.status # "unreachable")
        => last.result = "Running"
    /\ step = "done" => last.result = "NotInstalled"

\* C2: a real uninstall that was not declined attempts to remove the target
\* path of every manifest entry; a target whose removal does not fail is gone
\* afterwards; a failed removal raises no error; the final daemon-reload is
\* issued.
C2RemovesTargets ==
    (/\ RealUninstall
     /\ NonEmptyManifest(prev.fs)
     /\ last.force \/ \E ev \in Events : ev.kind = "confirm" /\ ev.status = "yes")
    => /\ \A p \in SourceFiles(prev.fs) :
            \E ev \in Events : ev.kind = "remove" /\ ev.to = TargetOf(p)
       /\ \A p \in SourceFiles(prev.fs) :
            (\A ev \in Events : ~(ev.kind = "remove" /\ ev.to = TargetOf(p)
                                    /\ ev.status = "failed"))
                => fs[TargetOf(p)] = NoFile
       /\ last.result = "Ok" \/ \E ev \in Execs : ev.status = "unreachable"
       /\ last.trace[Len(last.trace)].kind = "exec"
       /\ Issued("daemon-reload")

\* C3: a real install without force on a non-empty manifest with at least one
\* existing target path returns an error, copies nothing and issues no
\* service-manager command, wherever the colliding entry stands.
C3CollisionAborts ==
    (/\ RealInstall /\ ~last.force
     /\ NonEmptyManifest(prev.fs)
     /\ \E p \in SourceFiles(prev.fs) : prev.fs[TargetOf(p)] # NoFile)
    => /\ last.result = "Collision"
       /\ Untouched
       /\ \A ev \in Events : ev.kind \notin {"copy", "exec"}

\* C3 witness: the manifest holds several files and only the target of the
\* last one exists.
C3Witness ==
    /\ RealInstall /\ ~last.force
    /\ Walkable(prev.fs)
    /\ Cardinality(SourceFiles(prev.fs)) >= 2
    /\ {p \in SourceFiles(prev.fs) : prev.fs[TargetOf(p)] # NoFile}
          = {<<app.app_dir, <<UnitNames[MaxFiles]>>>>}
    /\ last.result = "Collision"

\* C4: a dry-run install or uninstall on a non-empty manifest returns success,
\* leaves the filesystem and the service manager as they were and issues
\* neither a command nor a prompt, whatever force and the target state are.
C4DryRunFrame ==
    (/\ last.op \in {"install", "uninstall"} /\ last.dry_run
     /\ NonEmptyManifest(prev.fs))
    => /\ last.result = "Ok"
       /\ Untouched
       /\ \A ev \in Events : ev.kind = "plan"

\* C4 witness: a dry-run install without force onto an existing target, the
\* unit being active.
C4Witness ==
    /\ last.op = "install" /\ last.dry_run /\ ~last.force
    /\ NonEmptyManifest(prev.fs)
    /\ \E p \in SourceFiles(prev.fs) : prev.fs[TargetOf(p)] = OtherContent
    /\ \E p \in SourceFiles(prev.fs) : prev.fs[TargetOf(p)] = NoFile
    /\ prev.sm.active
    /\ last.result = "Ok"

\* C5: install and uninstall on an empty manifest return an error and change
\* nothing, for every dry_run and force.
C5EmptyManifestFails ==
    (/\ last.op \in {"install", "uninstall"}
     /\ Walkable(prev.fs) /\ SourceFiles(prev.fs) = {})
    => /\ last.result = "EmptyManifest"
       /\ Untouched
       /\ last.trace = <<>>

\* C5 witness: a forced real uninstall on an empty manifest while unit files
\* lie in the target directory.
C5Witness ==
    /\ RealUninstall /\ last.force
    /\ Walkable(prev.fs) /\ SourceFiles(prev.fs) = {}
    /\ \E r \in UnitRels : exists(prev.fs, <<app.systemd_dir, r>>)
    /\ last.result = "EmptyManifest"

\* C6: when a manifest entry's target path is missing, get_status returns
\* NotInstalled whatever active and enabled are, and issues no query.
C6MissingIsNotInstalled ==
    (/\ last.op = "get_status"
     /\ Walkable(prev.fs)
     /\ \E p \in SourceFiles(prev.fs) : prev.fs[TargetOf(p)] = NoFile)
    => /\ last.result = "NotInstalled"
       /\ Execs = {}

\* C6 witness: one target present, one missing, the unit active and enabled.
C6Witness ==
    /\ last.op = "get_status"
    /\ Walkable(prev.fs)
    /\ \E p \in SourceFiles(prev.fs) : prev.fs[TargetOf(p)] = NoFile
    /\ \E p \in SourceFiles(prev.fs) : prev.fs[TargetOf(p)] # NoFile
    /\ prev.sm.active /\ prev.sm.enabled
    /\ last.result = "NotInstalled"

\* The reference status of an installed application.
ReferenceStatus(active, enabled) ==
    IF active THEN "Running" ELSE IF enabled THEN "Stopped" ELSE "Installed"

\* The query `verb` of the last operation was answered with success.
Reported(verb) ==
    \E ev \in Execs : ev.status = "success" /\ \E i \in 1..Len(ev.args) : ev.args[i] = verb

\* C7: when every manifest entry's target path exists, get_status is the
\* reference function of what the service manager reports for active and
\* enabled (active is asked first and takes precedence; a query reports true
\* only when the unit is so), one of the four status values, and changes
\* nothing.
C7StatusFunction ==
    (/\ last.op = "get_status"
     /\ Walkable(prev.fs)
     /\ \A p \in SourceFiles(prev.fs) : prev.fs[TargetOf(p)] # NoFile)
    => /\ last.result \in {"NotInstalled", "Installed", "Stopped", "Running"}
       /\ last.result = ReferenceStatus(Reported("is-active"), Reported("is-enabled"))
       /\ Len(last.trace) \in {1, 2}
       /\ \E i \in 1..Len(last.trace[1].args) : last.trace[1].args[i] = "is-active"
       /\ Len(last.trace) = 1 <=> last.trace[1].status = "success"
       /\ Reported("is-active") => prev.sm.active
       /\ Reported("is-enabled") => prev.sm.enabled
       /\ Untouched

\* C7 witness: installed, active and not enabled: Running.
C7Witness ==
    /\ last.op = "get_status"
    /\ NonEmptyManifest(prev.fs)
    /\ \A p \in SourceFiles(prev.fs) : prev.fs[TargetOf(p)] # NoFile
    /\ prev.sm.active /\ ~prev.sm.enabled
    /\ last.result = "Running"

\* Every copy of the last install succeeded and none was left out.
AllCopied ==
    \A p \in SourceFiles(prev.fs) :
        \E ev \in Events : ev.kind = "copy" /\ ev.from = p /\ ev.status = "ok"

\* C8 as claimed: a forced real install never fails for an existing target;
\* when all copies succeed every target holds its source's content and the
\* start command for <name>.service has been issued.
C8ForceInstalls ==
    (RealInstall /\ last.force /\ NonEmptyManifest(prev.fs))
    => /\ last.result # "Collision"
       /\ AllCopied
            => /\ \A p \in SourceFiles(prev.fs) : fs[TargetOf(p)] = prev.fs[p]
               /\ Issued("start") /\ Issued(app.name \o ".service")

\* The confirmation prompt of the last operation was answered with `answer`.
Answered(answer) == \E ev \in Events : ev.kind = "confirm" /\ ev.status = answer

\* C9: a real uninstall without force whose prompt is answered negatively
\* returns success, issues no command and changes nothing.
C9DeclinedIsNoOp ==
    (RealUninstall /\ ~last.force /\ NonEmptyManifest(prev.fs) /\ Answered("no"))
    => /\ last.result = "Ok"
       /\ Execs = {}
       /\ \A ev \in Events : ev.kind \notin {"remove", "copy"}
       /\ Untouched

\* C9 witness: declined while installed and active.
C9Witness ==
    /\ RealUninstall /\ ~last.force
    /\ NonEmptyManifest(prev.fs)
    /\ \A p \in SourceFiles(prev.fs) : prev.fs[TargetOf(p)] # NoFile
    /\ prev.sm.active
    /\ Answered("no")
    /\ last.result = "Ok"

\* C10: the is_active and is_enabled queries of the ServiceController never
\* return an error; they return true exactly when the command exits with
\* success, false when it exits non-zero or cannot be run.
C10QueriesNeverFail ==
    last.op \in {"is_active", "is_enabled"}
    => /\ last.result \in {"true", "false"}
       /\ last.result = "true" <=> \A ev \in Execs : ev.status = "success"

\* The positions in the last operation's trace of the events of kind `kind`.
Positions(kind) == {i \in 1..Len(last.trace) : last.trace[i].kind = kind}

\* The positions of the invocations whose arguments hold `word`.
ExecPositions(word) ==
    {i \in Positions("exec") :
        \E j \in 1..Len(last.trace[i].args) : last.trace[i].args[j] = word}

\* C12: in a real install whose copy phase succeeded, a reload or start
\* command that fails (non-zero exit or cannot be run) makes install return an
\* error, and the copied files remain.
C12CommandFailureIsError ==
    (/\ RealInstall /\ NonEmptyManifest(prev.fs) /\ AllCopied
     /\ \E ev \in Execs : ev.status # "success")
    => /\ last.result # "Ok"
       /\ \A p \in SourceFiles(prev.fs) : fs[TargetOf(p)] = prev.fs[p]

\* C13: a real install whose copy phase succeeds invokes daemon-reload and
\* then start <name>.service, each exactly once, in this order, after the last
\* copy.
C13ReloadThenStart ==
    (/\ RealInstall /\ NonEmptyManifest(prev.fs) /\ AllCopied
     /\ \A ev \in Execs : ev.status # "unreachable")
    => /\ Cardinality(ExecPositions("daemon-reload")) = 1
       /\ Cardinality(ExecPositions("start")) = 1
       /\ Cardinality(Positions("exec")) = 2
       /\ \A i \in ExecPositions("daemon-reload"), j \in ExecPositions("start") :
            /\ i < j
            /\ last.trace[j].args[Len(last.trace[j].args)] = app.name \o ".service"
       /\ \A c \in Positions("copy"), x \in Positions("exec") : c < x

\* C14: in a real uninstall that reaches finalization, a daemon-reload that
\* fails (non-zero exit or cannot be run) makes uninstall return an error; the
\* removals are not undone.
C14ReloadFailureIsError ==
    (/\ RealUninstall
     /\ \E i \in ExecPositions("daemon-reload") : last.trace[i].status # "success")
    => /\ last.result # "Ok"
       /\ \A i \in Positions("remove") :
            last.trace[i].status = "ok" => fs[last.trace[i].to] = NoFile

\* The last operation is a real uninstall that went past the confirmation.
WentAhead ==
    /\ RealUninstall /\ NonEmptyManifest(prev.fs)
    /\ last.force \/ Answered("yes")

\* C15: in a real uninstall the stop command is issued exactly once, before
\* any removal; when it fails the removals and the final daemon-reload still
\* run, and uninstall returns success when the reload succeeds.
C15StopIsBestEffort ==
    WentAhead
    => /\ Cardinality(ExecPositions("stop")) = 1
       /\ \A i \in ExecPositions("stop") :
            /\ last.trace[i].args[Len(last.trace[i].args)] = app.name \o ".service"
            /\ \A r \in Positions("remove") : i < r
       /\ Cardinality(Positions("remove")) = Cardinality(SourceFiles(prev.fs))
       /\ Cardinality(ExecPositions("daemon-reload")) = 1
       /\ \A i \in ExecPositions("daemon-reload") :
            /\ i = Len(last.trace)
            /\ last.trace[i].status = "success" => last.result = "Ok"

\* C15 witness: the stop command could not be run, the files were removed,
\* the reload succeeded and uninstall returned success.
C15Witness ==
    /\ WentAhead
    /\ \E i \in ExecPositions("stop") : last.trace[i].status = "unreachable"
    /\ \E i \in Positions("remove") : last.trace[i].status = "ok"
    /\ \E i \in ExecPositions("daemon-reload") : last.trace[i].status = "success"
    /\ prev.sm.active
    /\ last.result = "Ok"

\* C16: when the copy of the k-th manifest file fails, install returns an
\* error at once: the files copied before it stay, no later file is copied,
\* and neither daemon-reload nor start is issued. (The target of the failed
\* copy is as it was, or empty, or holds a part of the source.)
C16CopyFailureStops ==
    (RealInstall /\ \E i \in Positions("copy") : last.trace[i].status = "failed")
    => /\ last.result = "CopyError"
       /\ Execs = {}
       /\ \A i \in Positions("copy") :
            IF last.trace[i].status = "failed"
            THEN /\ i = Len(last.trace)
                 /\ fs[last.trace[i].to]
                        \in {prev.fs[last.trace[i].to], EmptyContent, PartialContent}
            ELSE fs[last.trace[i].to] = prev.fs[last.trace[i].from]
       /\ \A p \in SourceFiles(prev.fs) :
            (\A i \in Positions("copy") : last.trace[i].from # p)
                => fs[TargetOf(p)] = prev.fs[TargetOf(p)]
       /\ \A p \in DOMAIN fs : p[1] = app.app_dir => fs[p] = prev.fs[p]
       /\ sm = prev.sm

\* C16 witness: the first file was copied over another content, the copy of
\* the second one failed and left an empty file where there was none.
C16Witness ==
    /\ RealInstall
    /\ Len(last.trace) = 2
    /\ last.trace[1].kind = "copy" /\ last.trace[1].status = "ok"
    /\ prev.fs[last.trace[1].to] = OtherContent
    /\ fs[last.trace[1].to] = SourceContent
    /\ last.trace[2].kind = "copy" /\ last.trace[2].status = "failed"
    /\ prev.fs[last.trace[2].to] = NoFile
    /\ fs[last.trace[2].to] = EmptyContent
    /\ last.result = "CopyError"

\* Every target path of the manifest existed when the last operation started.
AllTargetsExisted ==
    Walkable(prev.fs) /\ \A p \in SourceFiles(prev.fs) : prev.fs[TargetOf(p)] # NoFile

\* C18: get_status returns no error because of a query: with every target
\* path present, two failing queries (non-zero exit or cannot be run) give
\* Installed, a failing is-active followed by a successful is-enabled gives
\* Stopped.
C18QueryFailureDegrades ==
    (last.op = "get_status" /\ AllTargetsExisted)
    => /\ last.result # "Err"
       /\ (~Reported("is-active") /\ ~Reported("is-enabled"))
            => last.result = "Installed"
       /\ (~Reported("is-active") /\ Reported("is-enabled"))
            => last.result = "Stopped"
       /\ (\E i \in ExecPositions("is-active") : last.trace[i].status = "unreachable")
            => ExecPositions("is-enabled") # {}

\* C18 witness: the unit is active and enabled, neither query can be run, the
\* status is Installed.
C18Witness ==
    /\ last.op = "get_status" /\ AllTargetsExisted
    /\ SourceFiles(prev.fs) # {}
    /\ prev.sm.active /\ prev.sm.enabled
    /\ \E i \in ExecPositions("is-active") : last.trace[i].status = "unreachable"
    /\ \E i \in ExecPositions("is-enabled") : last.trace[i].status = "unreachable"
    /\ last.result = "Installed"

\* C19: with an empty manifest and a source directory that can be walked,
\* get_status never returns NotInstalled (it is Running, Stopped or Installed
\* as the service manager reports), while install always fails.
C19EmptyManifestAsymmetry ==
    (Walkable(prev.fs) /\ SourceFiles(prev.fs) = {})
    => /\ last.op = "get_status"
            => /\ last.result \in {"Running", "Stopped", "Installed"}
               /\ last.result = ReferenceStatus(Reported("is-active"),
                                                Reported("is-enabled"))
       /\ last.op = "install" => last.result \notin {"Ok", "none"}

\* C19 witness: empty manifest, empty target directory, the status is Stopped.
C19Witness ==
    /\ last.op = "get_status"
    /\ Walkable(prev.fs) /\ SourceFiles(prev.fs) = {}
    /\ \A r \in UnitRels : ~exists(prev.fs, <<app.systemd_dir, r>>)
    /\ last.result = "Stopped"

\* C20: install and uninstall neither delete nor modify a file under the
\* source directory, so the manifest after a call is the manifest before it
\* (and an uninstall after a successful one does not find it empty).
C20SourceTreeKept ==
    last.op \in {"install", "uninstall"}
    => /\ \A p \in DOMAIN fs : p[1] = app.app_dir => fs[p] = prev.fs[p]
       /\ SourceFiles(fs) = SourceFiles(prev.fs)

\* The entries of the repository directory that stand for applications, in
\* the order of the listing: the directories whose name has no leading dot.
Candidates ==
    SelectSeq(batch.before.entries,
              LAMBDA e : e.kind = "dir" /\ SubSeq(e.name, 1, 1) # ".")

\* The last fleet-wide operation got past the discovery.
Discovered ==
    batch.op # "none" /\ batch.result \notin {"ListError", "ConfigError", "Panic"}

\* What the k-th application's turn left is still there: the copied files
\* hold their source's content, the removed paths are gone.
EffectsKept(k) ==
    \A n \in 1..Len(batch.calls[k].trace) :
        LET ev == batch.calls[k].trace[n]
        IN  /\ (ev.kind = "copy" /\ ev.status = "ok")
                => fleet.fs[ev.to] = batch.before.fs[ev.from]
            /\ (ev.kind = "remove" /\ ev.status = "ok") => fleet.fs[ev.to] = NoFile
            /\ ev.kind \in {"copy", "remove"}
                => ev.to \in MemberPaths(batch.calls[k].app)

\* The application called `name` is as it was before the fleet-wide operation.
MemberUntouched(name) ==
    /\ \A p \in MemberPaths(name) : fleet.fs[p] = batch.before.fs[p]
    /\ fleet.sm[name] = batch.before.sm[name]
    /\ \A k \in 1..Len(batch.calls) : batch.calls[k].app # name

\* C11: a fleet-wide install or uninstall takes the discovered applications
\* one at a time in discovery order; when one application's operation returns
\* an error the batch returns that error, no later application is touched, and
\* what was done to the earlier ones is kept.
C11BatchStopsAtFirstError ==
    (batch.op \in {"install", "uninstall"} /\ Discovered)
    => /\ Len(batch.calls) <= Len(Candidates)
       /\ \A k \in 1..Len(batch.calls) :
            /\ batch.calls[k].app = Candidates[k].name
            /\ k < Len(batch.calls) => batch.calls[k].result = "Ok"
            /\ EffectsKept(k)
       /\ IF batch.result = "Ok"
          THEN /\ Len(batch.calls) = Len(Candidates)
               /\ \A k \in 1..Len(batch.calls) : batch.calls[k].result = "Ok"
          ELSE /\ batch.calls # <<>>
               /\ batch.calls[Len(batch.calls)].result = batch.result
       /\ \A k \in (Len(batch.calls) + 1)..Len(Candidates) :
            MemberUntouched(Candidates[k].name)

\* C11 witness: of two applications the install of the first failed at its
\* second file, the file it had copied stayed, and the second application,
\* which had files to install and free target paths, was left alone.
C11Witness ==
    /\ batch.op = "install" /\ ~batch.dry_run
    /\ Len(Candidates) = 2
    /\ Len(batch.calls) = 1
    /\ batch.calls[1].result = "CopyError"
    /\ batch.result = "CopyError"
    /\ \E n \in 1..Len(batch.calls[1].trace) :
            /\ batch.calls[1].trace[n].kind = "copy"
            /\ batch.calls[1].trace[n].status = "ok"
            /\ batch.before.fs[batch.calls[1].trace[n].to] = NoFile
            /\ fleet.fs[batch.calls[1].trace[n].to] = SourceContent
    /\ \E p \in MemberPaths(Candidates[2].name) :
            /\ p[2] \in UnitRels /\ p[1] = RepoDir \o "/" \o Candidates[2].name
            /\ fleet.fs[p] = SourceContent
    /\ \A p \in MemberPaths(Candidates[2].name) :
            p[1] # RepoDir \o "/" \o Candidates[2].name /\ p[2] # <<>>
                => fleet.fs[p] = NoFile

\* Some directory of the repository directory without a leading dot has no
\* readable, well-formed configuration file of its own.
BadCandidate ==
    \E k \in 1..Len(Candidates) : Candidates[k].config.status # "ok"

\* C17: in a fleet-wide status, install or uninstall, a directory without a
\* leading dot whose configuration cannot be read or parsed makes the whole
\* operation fail before any application is queried, installed or
\* uninstalled; dot-prefixed directories and plain files are no candidates
\* and never make it fail.
C17DiscoveryFailsFast ==
    (batch.op \in {"status", "install", "uninstall"} /\ batch.result # "ListError")
    => IF BadCandidate
       THEN /\ batch.result = "ConfigError"
            /\ batch.calls = <<>>
            /\ fleet = batch.before
       ELSE /\ batch.result \notin {"ConfigError", "Panic"}
            /\ \A k \in 1..Len(batch.calls) :
                \E c \in 1..Len(Candidates) : batch.calls[k].app = Candidates[c].name

====
